---- MODULE Spec2Model ----
(***************************************************************************)
(* A model of esm-resolve: the export/import matcher (lib/node.js), the    *)
(* filesystem helpers (lib/helper.js) and the Resolver class with its      *)
(* buildResolver wrapper (index.js).                                       *)
(*                                                                         *)
(* A JavaScript string is a sequence of symbols.  A symbol is one          *)
(* character, or an indivisible word ("node_modules", "package.json",      *)
(* "browser", ...) that stands for a run of letters the code never looks   *)
(* inside: every test the code makes on a string ('/', '.', '#', '*', '?', *)
(* ':', '$', a suffix ".js") is made on single-character symbols.          *)
(***************************************************************************)
EXTENDS Integers, Sequences, FiniteSets, TLC

VARIABLES
    fs,          \* the filesystem: regular files and parsed manifests
    options,     \* the options object the caller passed to buildResolver
    importer,    \* the importer path the caller passed to buildResolver
    handler,     \* buildResolver's closure variable: "lazy" or "bound"
    resolver,    \* the Resolver the handler is bound to (its private fields)
    first,       \* first result of each specifier since the filesystem last changed
    last         \* the last operation performed and what it returned

vars == <<fs, options, importer, handler, resolver, first, last>>

(***************************************************************************)
(* Values                                                                  *)
(***************************************************************************)
\* JavaScript's undefined, as a string-typed value no real string equals.
None == <<"undefined">>

\* An exception leaving the function, as a string-typed value.
Throws == <<"throws">>

\* Any JSON value that is not a string (number, boolean, object, ...).
NonString == <<"nonstring">>

\* The backtick and the single quote are written as named symbols.
Backtick == "BACKTICK"
Quote == "QUOTE"

Punctuation == {"/", ".", "#", "?", "*", ":", "$", "&", "@", "-", "+", Backtick, Quote}
Digits == {"0", "1", "2", "3", "4", "5", "6", "7", "8", "9"}

\* Letters, and the words that stand for runs of letters.
isAlpha(c) == c \notin Punctuation /\ c \notin Digits

(***************************************************************************)
(* String.prototype helpers                                                *)
(***************************************************************************)
startsWith(s, p) == Len(s) >= Len(p) /\ SubSeq(s, 1, Len(p)) = p

endsWith(s, p) == Len(s) >= Len(p) /\ SubSeq(s, Len(s) - Len(p) + 1, Len(s)) = p

\* s.substr(from) / s.substring(from), from counted from 0.
substr(s, from) == SubSeq(s, from + 1, Len(s))

\* Index of the first occurrence of the symbol c in s, 0 when there is none.
indexOf(s, c) ==
    IF \A i \in 1..Len(s) : s[i] # c THEN 0
    ELSE CHOOSE i \in 1..Len(s) : s[i] = c /\ \A j \in 1..(i - 1) : s[j] # c

\* a.slice(from, to) of an array, from and to counted from 0.
slice(a, from, to) == SubSeq(a, from + 1, IF to > Len(a) THEN Len(a) ELSE to)

RECURSIVE split(_, _)
split(s, sep) ==
    LET i == indexOf(s, sep)
    IN  IF i = 0 THEN <<s>>
        ELSE <<SubSeq(s, 1, i - 1)>> \o split(SubSeq(s, i + 1, Len(s)), sep)

RECURSIVE join(_, _)
join(parts, sep) ==
    IF Len(parts) = 0 THEN <<>>
    ELSE IF Len(parts) = 1 THEN parts[1]
    ELSE parts[1] \o <<sep>> \o join(Tail(parts), sep)

(***************************************************************************)
(* String.prototype.replace(/\*/g, replacement) with a string replacement: *)
(* every '*' of s is replaced by the expansion of the replacement, in      *)
(* which "$$" inserts "$", "$&" the matched text, "$" and a backtick the   *)
(* text before the match, "$" and a quote the text after it; any other "$" *)
(* is literal (the regexp has no capture group).                           *)
(***************************************************************************)
RECURSIVE expandReplacement(_, _, _, _)
expandReplacement(r, matched, before, after) ==
    IF Len(r) = 0 THEN <<>>
    ELSE IF r[1] = "$" /\ Len(r) >= 2 /\ r[2] \in {"$", "&", Backtick, Quote}
    THEN (CASE r[2] = "$" -> <<"$">>
            [] r[2] = "&" -> matched
            [] r[2] = Backtick -> before
            [] r[2] = Quote -> after)
         \o expandReplacement(SubSeq(r, 3, Len(r)), matched, before, after)
    ELSE <<r[1]>> \o expandReplacement(Tail(r), matched, before, after)

RECURSIVE replaceFrom(_, _, _)
replaceFrom(s, i, r) ==
    IF i > Len(s) THEN <<>>
    ELSE IF s[i] = "*"
    THEN expandReplacement(r, <<"*">>, SubSeq(s, 1, i - 1), SubSeq(s, i + 1, Len(s)))
         \o replaceFrom(s, i + 1, r)
    ELSE <<s[i]>> \o replaceFrom(s, i + 1, r)

replaceAllStars(s, r) == replaceFrom(s, 1, r)

(***************************************************************************)
(* Node's path module (posix)                                              *)
(***************************************************************************)
DotDot == <<".", ".">>

RECURSIVE normalizeSegments(_, _, _)
normalizeSegments(segs, acc, allowAboveRoot) ==
    IF Len(segs) = 0 THEN acc
    ELSE LET seg == Head(segs)
             rest == Tail(segs)
         IN  IF seg = <<>> \/ seg = <<".">>
             THEN normalizeSegments(rest, acc, allowAboveRoot)
             ELSE IF seg = DotDot
             THEN IF Len(acc) > 0 /\ acc[Len(acc)] # DotDot
                  THEN normalizeSegments(rest, SubSeq(acc, 1, Len(acc) - 1), allowAboveRoot)
                  ELSE IF allowAboveRoot
                  THEN normalizeSegments(rest, Append(acc, seg), allowAboveRoot)
                  ELSE normalizeSegments(rest, acc, allowAboveRoot)
             ELSE normalizeSegments(rest, Append(acc, seg), allowAboveRoot)

normalizeString(p, allowAboveRoot) ==
    join(normalizeSegments(split(p, "/"), <<>>, allowAboveRoot), "/")

isAbsolute(p) == Len(p) > 0 /\ p[1] = "/"

\* path.normalize
pathNormalize(p) ==
    IF Len(p) = 0 THEN <<".">>
    ELSE LET trailing == p[Len(p)] = "/"
             n == normalizeString(p, ~isAbsolute(p))
         IN  IF Len(n) = 0
             THEN (IF isAbsolute(p) THEN <<"/">>
                   ELSE IF trailing THEN <<".", "/">> ELSE <<".">>)
             ELSE LET m == IF trailing THEN n \o <<"/">> ELSE n
                  IN  IF isAbsolute(p) THEN <<"/">> \o m ELSE m

\* path.join(a, b, ...): the non-empty arguments joined by '/', normalized.
pathJoin(args) ==
    LET kept == SelectSeq(args, LAMBDA a : Len(a) > 0)
    IN  IF Len(kept) = 0 THEN <<".">> ELSE pathNormalize(join(kept, "/"))

\* path.resolve(p) in the working directory cwd (an absolute path).
pathResolve(cwd, p) ==
    LET full == IF isAbsolute(p) THEN p ELSE cwd \o <<"/">> \o p
    IN  <<"/">> \o normalizeString(full, FALSE)

\* path.dirname
pathDirname(p) ==
    IF Len(p) = 0 THEN <<".">>
    ELSE LET ends == {i \in 2..Len(p) :
                         p[i] = "/" /\ \E j \in (i + 1)..Len(p) : p[j] # "/"}
         IN  IF ends = {} THEN (IF isAbsolute(p) THEN <<"/">> ELSE <<".">>)
             ELSE LET end == CHOOSE i \in ends : \A j \in ends : j <= i
                  IN  IF isAbsolute(p) /\ end = 2 THEN <<"/", "/">>
                      ELSE SubSeq(p, 1, end - 1)

RECURSIVE commonPrefixLength(_, _)
commonPrefixLength(a, b) ==
    IF Len(a) = 0 \/ Len(b) = 0 \/ Head(a) # Head(b) THEN 0
    ELSE 1 + commonPrefixLength(Tail(a), Tail(b))

\* path.relative(from, to), both absolute.
pathRelative(from, to) ==
    LET f == normalizeSegments(split(from, "/"), <<>>, FALSE)
        t == normalizeSegments(split(to, "/"), <<>>, FALSE)
        k == commonPrefixLength(f, t)
        ups == [i \in 1..(Len(f) - k) |-> DotDot]
    IN  join(ups \o SubSeq(t, k + 1, Len(t)), "/")

(***************************************************************************)
(* WHATWG URL, as far as the resolver uses it                              *)
(***************************************************************************)
isSchemeChar(c) == isAlpha(c) \/ c \in Digits \/ c \in {"+", "-", "."}

\* new URL(s), with no base, does not throw: s starts with a scheme.
isURL(s) ==
    \E i \in 2..Len(s) :
        /\ s[i] = ":"
        /\ isAlpha(s[1])
        /\ \A j \in 2..(i - 1) : isSchemeChar(s[j])

\* The path, the search ("?..." unless empty) and the hash ("#..." unless empty).
urlSplit(s) ==
    LET h == indexOf(s, "#")
        beforeHash == IF h = 0 THEN s ELSE SubSeq(s, 1, h - 1)
        fragment == IF h = 0 THEN <<>> ELSE SubSeq(s, h, Len(s))
        q == indexOf(beforeHash, "?")
        query == IF q = 0 THEN <<>> ELSE SubSeq(beforeHash, q, Len(beforeHash))
    IN  [path |-> IF q = 0 THEN beforeHash ELSE SubSeq(beforeHash, 1, q - 1),
         search |-> IF Len(query) > 1 THEN query ELSE <<>>,
         hash |-> IF Len(fragment) > 1 THEN fragment ELSE <<>>]

\* The URL parser's path state: "." and ".." segments are resolved, a final
\* one leaves an empty last segment, empty segments are kept.
RECURSIVE urlSegments(_, _)
urlSegments(segs, acc) ==
    IF Len(segs) = 0 THEN acc
    ELSE LET seg == Head(segs)
             rest == Tail(segs)
             final == Len(rest) = 0
         IN  IF seg = DotDot
             THEN LET popped == IF Len(acc) > 0 THEN SubSeq(acc, 1, Len(acc) - 1) ELSE acc
                  IN  urlSegments(rest, IF final THEN Append(popped, <<>>) ELSE popped)
             ELSE IF seg = <<".">>
             THEN urlSegments(rest, IF final THEN Append(acc, <<>>) ELSE acc)
             ELSE urlSegments(rest, Append(acc, seg))

urlPathname(segs) == <<"/">> \o join(segs, "/")

FileScheme == <<"f", "i", "l", "e", ":">>

\* new URL(s) of a string that has a scheme.
newURL(s) ==
    LET colon == indexOf(s, ":")
        protocol == SubSeq(s, 1, colon)
        afterScheme == SubSeq(s, colon + 1, Len(s))
        afterSlashes == IF startsWith(afterScheme, <<"/", "/">>)
                        THEN substr(afterScheme, 2) ELSE afterScheme
        parts == urlSplit(afterSlashes)
        slash == indexOf(parts.path, "/")
        \* what precedes the first '/' is the host
        rawPath == IF slash = 0 THEN <<>> ELSE SubSeq(parts.path, slash + 1, Len(parts.path))
    IN  [protocol |-> protocol,
         pathname |-> urlPathname(urlSegments(split(rawPath, "/"), <<>>)),
         search |-> parts.search,
         hash |-> parts.hash]

\* new URL(s, base) of a string that has no scheme, base a file: URL.
newURLWithBase(s, base) ==
    LET parts == urlSplit(s)
        p == parts.path
        baseSegs == split(substr(base.pathname, 1), "/")
        shortened == SubSeq(baseSegs, 1, Len(baseSegs) - 1)
        afterHost == substr(p, 2)
        slash == indexOf(afterHost, "/")
        hostPath == IF slash = 0 THEN <<>> ELSE SubSeq(afterHost, slash + 1, Len(afterHost))
    IN  [protocol |-> base.protocol,
         pathname |->
            IF Len(p) = 0 THEN base.pathname
            ELSE IF startsWith(p, <<"/", "/">>)
            THEN urlPathname(urlSegments(split(hostPath, "/"), <<>>))
            ELSE IF p[1] = "/"
            THEN urlPathname(urlSegments(split(substr(p, 1), "/"), <<>>))
            ELSE urlPathname(urlSegments(split(p, "/"), shortened)),
         search |-> parts.search,
         hash |-> parts.hash]

(***************************************************************************)
(* The filesystem.  fs.files is the set of absolute paths of the regular   *)
(* files, fs.dirs the set of the directories (those a file lies under),    *)
(* fs.json maps the files whose content parses as JSON to the parsed       *)
(* manifest.                                                               *)
(***************************************************************************)
segmentsOf(p) == normalizeSegments(split(p, "/"), <<>>, FALSE)

canonical(p) == <<"/">> \o join(segmentsOf(p), "/")

\* The directories above the files.
directoriesOf(files) ==
    UNION { {<<"/">> \o join(SubSeq(segmentsOf(file), 1, n), "/") :
                n \in 0..(Len(segmentsOf(file)) - 1)} : file \in files }

\* fs.statSync(p) caught: "file", "dir", or "null" when it throws.  A
\* trailing '/' after a regular file is ENOTDIR.
statOf(f, p, canon) ==
    IF canon \in f.files
    THEN (IF Len(p) > 1 /\ p[Len(p)] = "/" THEN "null" ELSE "file")
    ELSE IF canon \in f.dirs THEN "dir" ELSE "null"

statOrNull(f, p) == statOf(f, p, canonical(p))

statIsFile(f, p) == statOrNull(f, p) = "file"

existsSync(f, p) == statOrNull(f, p) # "null"

\* JSON.parse(fs.readFileSync(p)) of a regular file does not throw.
parses(f, canon) == canon \in f.files /\ canon \in DOMAIN f.json

isLocal(p) == p = <<".">> \/ startsWith(p, <<".", "/">>)

(***************************************************************************)
(* Export and import maps.  A node of a manifest is a string ("str"), an   *)
(* object with its keys in declaration order ("obj"), absent ("undef"),    *)
(* null ("null"), or any other JSON value: an array, a number, true        *)
(* ("other").                                                              *)
(***************************************************************************)
Str(s) == [t |-> "str", s |-> s, kv |-> <<>>]
Obj(kv) == [t |-> "obj", s |-> <<>>, kv |-> kv]
Undefined == [t |-> "undef", s |-> <<>>, kv |-> <<>>]
Null == [t |-> "null", s |-> <<>>, kv |-> <<>>]
Other == [t |-> "other", s |-> <<>>, kv |-> <<>>]

\* JavaScript truthiness of a node.
truthy(node) == node.t \in {"obj", "other"} \/ (node.t = "str" /\ Len(node.s) > 0)

includes(list, x) == \E i \in 1..Len(list) : list[i] = x

\* node[key]
get(node, key) ==
    IF \E i \in 1..Len(node.kv) : node.kv[i][1] = key
    THEN node.kv[CHOOSE i \in 1..Len(node.kv) : node.kv[i][1] = key][2]
    ELSE Undefined

\* The always-on conditions without the 'module' workaround.
importOnly == << <<"import">> >>

alwaysConstraints == << <<"module">>, <<"import">> >>

\* A capture that keeps a pattern key out of the match whatever it is.
captureAlwaysAllowed(subpath) == TRUE

\* The test a pattern key's capture must pass: path.normalize leaves it alone.
captureAllowed(subpath) == pathNormalize(subpath) = subpath

\* The for-in loop of matchModuleNodePath from the i-th key on; fallback
\* tells whether a key that is no subpath key was seen.
RECURSIVE scanKeys(_, _, _, _)
scanKeys(exports, rest, i, fallback) ==
    IF i > Len(exports.kv)
    THEN [node |-> IF fallback THEN exports ELSE Undefined, subpath |-> None]
    ELSE LET key == exports.kv[i][1]
             prefix == SubSeq(key, 1, Len(key) - 1)
             subpath == substr(rest, Len(prefix))
         IN  IF ~startsWith(key, <<"#">>) /\ ~isLocal(key)
             THEN scanKeys(exports, rest, i + 1, TRUE)
             ELSE IF key = rest
             THEN [node |-> exports.kv[i][2], subpath |-> None]
             ELSE IF ~endsWith(key, <<"/", "*">>)
             THEN scanKeys(exports, rest, i + 1, fallback)
             ELSE IF ~(startsWith(rest, prefix) /\ Len(rest) > Len(prefix))
             THEN scanKeys(exports, rest, i + 1, fallback)
             ELSE IF ~captureAllowed(subpath)
             THEN scanKeys(exports, rest, i + 1, fallback)
             ELSE [node |-> exports.kv[i][2], subpath |-> subpath]

matchModuleNodePath(exports, rest) ==
    IF exports.t = "obj" THEN scanKeys(exports, rest, 1, FALSE)
    ELSE IF exports.t = "null" THEN [node |-> Undefined, subpath |-> None]
    ELSE [node |-> exports, subpath |-> None]

\* The traversal with 'default' taken wherever a mapping declares it.
RECURSIVE restartDefaultFirst(_, _)
restartDefaultFirst(node, constraints) ==
    IF node.t = "obj"
    THEN LET hits == {i \in 1..Len(node.kv) :
                         \/ includes(alwaysConstraints, node.kv[i][1])
                         \/ includes(constraints, node.kv[i][1])}
         IN  IF get(node, <<"default">>) # Undefined
             THEN restartDefaultFirst(get(node, <<"default">>), constraints)
             ELSE IF hits # {}
             THEN restartDefaultFirst(node.kv[CHOOSE i \in hits : \A j \in hits : i <= j][2],
                                      constraints)
             ELSE Undefined
    ELSE IF node.t = "other" THEN Undefined
    ELSE node

\* The loop labelled restart of matchModuleNode.
RECURSIVE restart(_, _)
restart(node, constraints) ==
    IF node.t = "obj"
    THEN LET hits == {i \in 1..Len(node.kv) :
                         \/ includes(alwaysConstraints, node.kv[i][1])
                         \/ includes(constraints, node.kv[i][1])}
         IN  IF hits # {}
             THEN restart(node.kv[CHOOSE i \in hits : \A j \in hits : i <= j][2], constraints)
             ELSE restart(get(node, <<"default">>), constraints)
    ELSE IF node.t = "other" THEN Undefined
    ELSE node

\* The end of matchModuleNode: node is where the traversal stopped.
substituted(node, subpath) ==
    IF ~truthy(node) THEN None
    ELSE IF subpath # None THEN replaceAllStars(node.s, subpath)
    ELSE node.s

\* matchModuleNode from the result of matchModuleNodePath on.
matchFound(found, constraints) == substituted(restart(found.node, constraints), found.subpath)

matchModuleNode(exports, rest, constraints) ==
    matchFound(matchModuleNodePath(exports, rest), constraints)

(***************************************************************************)
(* Resolver (index.js)                                                     *)
(***************************************************************************)
OptionKeys ==
    {"constraints", "allowMissing", "rewritePeerTypes", "allowExportFallback",
     "matchNakedMjs", "includeMainFallback", "checkNestedPackages"}

defaults ==
    [k \in OptionKeys |->
        CASE k = "constraints" -> << <<"browser">> >>
          [] k = "allowMissing" -> FALSE
          [] k = "rewritePeerTypes" -> TRUE
          [] k = "allowExportFallback" -> TRUE
          [] k = "matchNakedMjs" -> FALSE
          [] k = "includeMainFallback" -> TRUE
          [] k = "checkNestedPackages" -> TRUE]

\* /^\.{0,2}\//.test(s)
relativeRegexp(s) ==
    \/ startsWith(s, <<"/">>)
    \/ startsWith(s, <<".", "/">>)
    \/ startsWith(s, <<".", ".", "/">>)

dotJs == <<".", "j", "s">>
dotMjs == <<".", "m", "j", "s">>
dotDts == <<".", "d", ".", "t", "s">>

\* s.replace(/\.js$/, '.d.ts')
replaceJsSuffix(s) ==
    IF endsWith(s, dotJs) THEN SubSeq(s, 1, Len(s) - 3) \o dotDts ELSE s

\* 'data:text/javascript;charset=utf-8,/* was .d.ts only */': the scheme in
\* characters, what follows it as one symbol.
zeroJsDefinitionsImport ==
    <<"d", "a", "t", "a", ":", "text/javascript;charset=utf-8,/* was .d.ts only */">>

\* The legacy fields with 'esnext' looked at before 'esnext:main'.
modulePackageNamesSwapped == <<"module", "esnext", "esnext:main", "jsnext:main", "jsnext">>

modulePackageNames == <<"module", "esnext:main", "esnext", "jsnext:main", "jsnext">>

nodeModules == <<"node_modules">>
packageJson == <<"package.json">>

\* Node's own modules, for which require.resolve.paths returns null.
BuiltinModules == { <<"fs">>, <<"path">> }

\* Module._nodeModulePaths(from): from and each of its ancestors, unless the
\* directory is itself named node_modules, with '/node_modules' appended.
nodeModulePaths(from) ==
    LET segs == segmentsOf(from)
        dirs == [i \in 1..Len(segs) |-> SubSeq(segs, 1, Len(segs) - i + 1)]
        kept == SelectSeq(dirs, LAMBDA d : d[Len(d)] # nodeModules)
    IN  [i \in 1..Len(kept) |-> <<"/">> \o join(Append(kept[i], nodeModules), "/")]
        \o << <<"/">> \o nodeModules >>

\* new Resolver(importer, options), created in the working directory cwd:
\* the private fields, and the directory and search paths of the require
\* function createRequire(importerDir) returns.
Cwd == <<"/", "w">>

construct(importerPath, callerOptions) ==
    LET merged == [k \in OptionKeys |->
                      IF k \in DOMAIN callerOptions THEN callerOptions[k] ELSE defaults[k]]
        importerDir == pathJoin(<<pathResolve(Cwd, importerPath), DotDot, <<"/">>>>)
        proxyPath == pathJoin(<<importerDir, <<"noop", ".", "j", "s">> >>)
    IN  [built |-> TRUE,
         options |-> merged,
         constraints |-> merged["constraints"],
         importerDir |-> newURL(FileScheme \o <<"/", "/">> \o importerDir),
         requireDir |-> pathDirname(proxyPath),
         requirePaths |-> nodeModulePaths(pathDirname(proxyPath))]

\* this.#require.resolve.paths(request); null is the empty list.
resolvePaths(r, request) ==
    IF request \in BuiltinModules THEN <<>>
    ELSE IF /\ startsWith(request, <<".">>)
            /\ (Len(request) = 1 \/ request[2] = "." \/ request[2] = "/")
    THEN <<r.requireDir>>
    ELSE r.requirePaths

NotFound == [found |-> FALSE, threw |-> FALSE]
Threw == [found |-> FALSE, threw |-> TRUE]
Package(resolved, info) == [found |-> TRUE, threw |-> FALSE, resolved |-> resolved, info |-> info]

\* a, or b where a is undefined.
orElse(a, b) == IF a # None THEN a ELSE b

\* One turn of the loop of loadSelfPackage: the manifest at selfPackagePath
\* (canonical) if it parses, else the search from the parent directory.
RECURSIVE selfPackageFrom(_, _)
selfPackageAt(f, candidatePath, selfPackagePath, next) ==
    IF parses(f, selfPackagePath) THEN Package(candidatePath, f.json[selfPackagePath])
    ELSE IF next = candidatePath THEN NotFound
    ELSE selfPackageFrom(f, next)

selfPackageFrom(f, candidatePath) ==
    selfPackageAt(f, candidatePath,
                  canonical(pathJoin(<<candidatePath, packageJson>>)),
                  pathDirname(candidatePath))

selfPackageIn(f, paths) ==
    IF Len(paths) = 0 THEN NotFound ELSE selfPackageFrom(f, paths[1])

loadSelfPackage(r, f) == selfPackageIn(f, resolvePaths(r, <<".">>))

\* The first of the paths that exists, None without one.
firstExisting(f, checks) ==
    IF \A i \in 1..Len(checks) : ~existsSync(f, checks[i]) THEN None
    ELSE checks[CHOOSE i \in 1..Len(checks) :
                    existsSync(f, checks[i]) /\ \A j \in 1..(i - 1) : ~existsSync(f, checks[j])]

\* The end of loadPackage: the manifest found at packagePath is read.
readPackage(f, packagePath) ==
    IF packagePath = None THEN NotFound
    ELSE IF ~parses(f, canonical(packagePath)) THEN Threw
    ELSE Package(pathDirname(packagePath), f.json[canonical(packagePath)])

\* loadPackage looking in the dependency directories before the self package.
loadPackageDepsFirst(f, name, candidatePaths, self) ==
    IF Len(candidatePaths) = 0 THEN NotFound
    ELSE IF firstExisting(f, [i \in 1..Len(candidatePaths) |->
                                pathJoin(<<candidatePaths[i], name, packageJson>>)]) # None
    THEN readPackage(f, firstExisting(f, [i \in 1..Len(candidatePaths) |->
                                            pathJoin(<<candidatePaths[i], name, packageJson>>)]))
    ELSE IF self.found /\ self.info.str["name"] = name THEN self
    ELSE NotFound

\* loadPackage once the candidate paths and the self package are known.
loadPackageFrom(f, name, candidatePaths, self) ==
    IF Len(candidatePaths) = 0 THEN NotFound
    ELSE IF self.found /\ self.info.str["name"] = name THEN self
    ELSE readPackage(f, firstExisting(f, [i \in 1..Len(candidatePaths) |->
                                            pathJoin(<<candidatePaths[i], name, packageJson>>)]))

loadPackage(r, f, name) ==
    loadPackageFrom(f, name, resolvePaths(r, name), loadSelfPackage(r, f))

\* The probed extensions with matchNakedMjs ignored.
extToCheckJsOnly(o) == <<dotJs>>

extToCheck(o) == IF o["matchNakedMjs"] THEN <<dotJs, dotMjs>> ELSE <<dotJs>>

\* The first of the candidate paths that is a regular file, None without one.
firstFile(f, checks) ==
    IF \A i \in 1..Len(checks) : ~statIsFile(f, checks[i]) THEN None
    ELSE checks[CHOOSE i \in 1..Len(checks) :
                    statIsFile(f, checks[i]) /\ \A j \in 1..(i - 1) : ~statIsFile(f, checks[j])]

\* confirmPath once stat and extToCheck are known.
confirmStat(o, f, pathname, stat, exts) ==
    IF stat = "file" THEN pathname
    ELSE IF stat = "null"
    THEN orElse(firstFile(f, [i \in 1..Len(exts) |-> pathname \o exts[i]]),
                IF /\ o["rewritePeerTypes"]
                   /\ firstFile(f, <<pathname \o dotDts, replaceJsSuffix(pathname)>>) # None
                THEN zeroJsDefinitionsImport
                ELSE None)
    ELSE orElse(firstFile(f, [i \in 1..Len(exts) |->
                                 pathJoin(<<pathname, <<"index">> \o exts[i]>>)]),
                IF /\ o["rewritePeerTypes"]
                   /\ statIsFile(f, pathJoin(<<pathname, <<"index">> \o dotDts>>))
                THEN zeroJsDefinitionsImport
                ELSE None)

\* confirmPath probing nothing: every path is taken as it is.
confirmNothing(o, f, pathname) == pathname

confirmPath(o, f, pathname) ==
    confirmStat(o, f, pathname, statOrNull(f, pathname), extToCheck(o))

\* The locator of a path on a web server.
httpURL(p) == <<"h", "t", "t", "p", ":", "/", "/", "e">> \o p

\* The file: locator of an absolute path.
fileURL(p) == FileScheme \o <<"/", "/">> \o p

\* A field of a manifest holds a string.
isString(v) == v # None /\ v # NonString

\* The first of the legacy fields, from the i-th on, that holds a string.
RECURSIVE firstLegacyField(_, _)
firstLegacyField(info, i) ==
    IF i > Len(modulePackageNames) THEN None
    ELSE IF isString(info.str[modulePackageNames[i]]) THEN info.str[modulePackageNames[i]]
    ELSE firstLegacyField(info, i + 1)

\* The entry of a package imported by its name alone: the first legacy field
\* that is a string, else 'main' where it may be used, else the directory.
legacyEntry(r, info) ==
    orElse(firstLegacyField(info, 1),
           IF /\ r.options["includeMainFallback"] \/ info.str["type"] = <<"module">>
              /\ isString(info.str["main"])
           THEN info.str["main"]
           ELSE <<".">>)

\* The do-while loop of nodeResolve, entered with index and fallbackBest.
RECURSIVE nestedLoop(_, _, _, _, _)

\* The loop's condition, and its next turn or its end.
again(r, f, pathComponents, index, fallbackBest) ==
    IF r.options["checkNestedPackages"] /\ index + 1 <= Len(pathComponents)
    THEN nestedLoop(r, f, pathComponents, index + 1, fallbackBest)
    ELSE fallbackBest

\* The legacy step with the latest candidate kept in place of the first.
legacyStepLast(r, f, pathComponents, index, fallbackBest, rest, pkg) ==
    IF rest = <<".">>
    THEN fileURL(pathJoin(<<pkg.resolved, legacyEntry(r, pkg.info)>>))
    ELSE again(r, f, pathComponents, index, fileURL(pathJoin(<<pkg.resolved, rest>>)))

\* One turn from 'Check a few legacy options' on.
legacyStep(r, f, pathComponents, index, fallbackBest, rest, pkg) ==
    IF rest = <<".">>
    THEN fileURL(pathJoin(<<pkg.resolved, legacyEntry(r, pkg.info)>>))
    ELSE again(r, f, pathComponents, index,
               orElse(fallbackBest, fileURL(pathJoin(<<pkg.resolved, rest>>))))

\* The exports step with allowExportFallback ignored: legacy resolution
\* whenever the exports give no local target.
exportsStepOpen(r, f, pathComponents, index, fallbackBest, rest, pkg, matched) ==
    IF truthy(pkg.info.exports) /\ matched # None /\ Len(matched) > 0 /\ isLocal(matched)
    THEN fileURL(pathJoin(<<pkg.resolved, matched>>))
    ELSE legacyStep(r, f, pathComponents, index, fallbackBest, rest, pkg)

\* One turn from 'Match exports' on; matched is None without exports.
exportsStep(r, f, pathComponents, index, fallbackBest, rest, pkg, matched) ==
    IF truthy(pkg.info.exports) /\ matched # None /\ Len(matched) > 0 /\ isLocal(matched)
    THEN fileURL(pathJoin(<<pkg.resolved, matched>>))
    ELSE IF truthy(pkg.info.exports) /\ ~r.options["allowExportFallback"]
    THEN None
    ELSE legacyStep(r, f, pathComponents, index, fallbackBest, rest, pkg)

\* One turn once the package is loaded.
packageStep(r, f, pathComponents, index, fallbackBest, rest, pkg) ==
    IF pkg.threw THEN Throws
    ELSE IF ~pkg.found THEN again(r, f, pathComponents, index, fallbackBest)
    ELSE exportsStep(r, f, pathComponents, index, fallbackBest, rest, pkg,
                     IF truthy(pkg.info.exports)
                     THEN matchModuleNode(pkg.info.exports, rest, r.constraints)
                     ELSE None)

nestedLoop(r, f, pathComponents, index, fallbackBest) ==
    packageStep(r, f, pathComponents, index, fallbackBest,
                join(<< <<".">> >> \o slice(pathComponents, index, Len(pathComponents)), "/"),
                loadPackage(r, f, join(slice(pathComponents, 0, index), "/")))

\* nodeResolve from the split of the importee on.
splitResolve(r, f, pathComponents) ==
    nestedLoop(r, f, pathComponents,
               IF startsWith(pathComponents[1], <<"@">>) THEN 2 ELSE 1, None)

\* The imports of a manifest, {} where null or absent.
importsOf(info) == IF info.imports.t \in {"undef", "null"} THEN Obj(<<>>) ELSE info.imports

\* nodeResolve of a '#' importee once the imports are matched.
internalResolve(r, f, self, matched) ==
    IF matched = None \/ Len(matched) = 0 THEN None
    ELSE IF isLocal(matched) THEN fileURL(pathJoin(<<self.resolved, matched>>))
    ELSE splitResolve(r, f, split(matched, "/"))

\* nodeResolve of a '#' importee once the self package is loaded.
selfResolve(r, f, importee, self) ==
    IF ~self.found THEN None
    ELSE internalResolve(r, f, self,
                         matchModuleNode(importsOf(self.info), importee, r.constraints))

nodeResolve(r, f, importee) ==
    IF startsWith(importee, <<"#">>)
    THEN selfResolve(r, f, importee, loadSelfPackage(r, f))
    ELSE splitResolve(r, f, split(importee, "/"))

\* What resolve did: the value of nodeResolve, the pathname probed, the
\* suffix, the value of confirmPath, and the value returned.
Steps(resolved, pathname, suffix, confirmed, result) ==
    [resolved |-> resolved, pathname |-> pathname, suffix |-> suffix,
     confirmed |-> confirmed, result |-> result]

\* The relative path returned as path.relative gives it.
relativeStepBare(out, suffix) == out \o suffix

\* resolve from 'Find the relative path from the request' on.
relativeStep(out, suffix) ==
    (IF relativeRegexp(out) THEN out ELSE <<".", "/">> \o out) \o suffix

\* resolve once the path is confirmed or not.
confirmedStep(r, resolved, url, confirmed) ==
    IF confirmed = None /\ ~r.options["allowMissing"]
    THEN Steps(resolved, url.pathname, url.search \o url.hash, confirmed, None)
    ELSE IF isURL(orElse(confirmed, url.pathname))
    THEN Steps(resolved, url.pathname, url.search \o url.hash, confirmed,
               orElse(confirmed, url.pathname))
    ELSE Steps(resolved, url.pathname, url.search \o url.hash, confirmed,
               relativeStep(pathRelative(r.importerDir.pathname,
                                         orElse(confirmed, url.pathname)),
                            url.search \o url.hash))

\* resolve once the URL is formed.
urlStep(r, f, resolved, url) ==
    IF resolved # None /\ url.protocol # FileScheme
    THEN Steps(resolved, None, None, None, Throws)
    ELSE confirmedStep(r, resolved, url, confirmPath(r.options, f, url.pathname))

\* resolve once nodeResolve has returned.
resolvedStep(r, f, importee, resolved) ==
    IF resolved = Throws THEN Steps(Throws, None, None, None, Throws)
    ELSE urlStep(r, f, resolved,
                 IF resolved # None THEN newURL(resolved)
                 ELSE newURLWithBase(importee, r.importerDir))

\* resolve without its test for a URL.
resolveStepsUnchecked(r, f, importee) ==
    resolvedStep(r, f, importee, nodeResolve(r, f, importee))

\* Every value resolve computes on its way, and what it returns.
resolveSteps(r, f, importee) ==
    IF isURL(importee) THEN Steps(None, None, None, None, None)
    ELSE resolvedStep(r, f, importee, nodeResolve(r, f, importee))

resolve(r, f, importee) == resolveSteps(r, f, importee).result

(***************************************************************************)
(* Inputs of the matcher                                                   *)
(***************************************************************************)
\* Longest mapping, in keys, the matcher is given.
MaxKeys == 2

kImport == <<"import">>
kModule == <<"module">>
kBrowser == <<"browser">>
kNode == <<"node">>
kDefault == <<"default">>

\* The entries a mapping is drawn from: exact and pattern subpath keys, and
\* condition keys with a terminal or a nested mapping under them.
MapEntries ==
    { << <<".", "/", "f", "/", "*">>, Str(<<".", "/", "b", "/", "*">>) >>,
      << <<".", "/", "f", "/", "x">>, Str(<<".", "/", "y">>) >>,
      << <<".", "/", "*">>, Str(<<".", "/", "c", "/", "*", "/", "*">>) >>,
      << <<".">>, Obj(<< <<kNode, Str(<<".", "/", "n">>)>>,
                         <<kModule, Str(<<".", "/", "m">>)>>,
                         <<kDefault, Str(<<".", "/", "d">>)>> >>) >>,
      << kImport, Str(<<".", "/", "i">>) >>,
      << kModule, Str(<<".", "/", "m", "/", "*">>) >>,
      << kBrowser, Str(<<".", "/", "w">>) >>,
      << kDefault, Str(<<".", "/", "d">>) >>,
      << kNode, Obj(<< <<kDefault, Str(<<".", "/", "n", "d">>)>>,
                       <<kImport, Str(<<".", "/", "n", "i">>)>> >>) >> }

distinctKeys(kv) == \A i, j \in 1..Len(kv) : kv[i][1] = kv[j][1] => i = j

MapInputs ==
    UNION { {Obj(kv) : kv \in {q \in [1..n -> MapEntries] : distinctKeys(q)}} : n \in 1..MaxKeys }

ExportsInputs == MapInputs \cup {Str(<<".", "/", "z">>), Other}

RestInputs ==
    { <<".">>,
      <<".", "/", "f", "/", "x">>,
      <<".", "/", "f", "/", "q">>,
      <<".", "/", "f", "/", ".", ".", "/", "q">>,
      <<".", "/", "f", "/", ".", "/", "q">>,
      <<".", "/", "f", "/", "a", "/", "/", "q">>,
      <<".", "/", "f", "/", "$", "&">>,
      <<".", "/", "q">> }

ConstraintInputs == { <<>>, <<kBrowser>>, <<kNode>>, <<kNode, kBrowser>> }


(***************************************************************************)
(* Inputs of the resolver: filesystems, options, importers, specifiers     *)
(***************************************************************************)
path(segs) == <<"/">> \o join(segs, "/")

StrKeys == {"name", "type", "main", "module", "esnext:main", "esnext", "jsnext:main", "jsnext"}

\* A parsed manifest: its string-valued fields (None where absent), its
\* exports and its imports.
Manifest(fields, exports, imports) ==
    [str |-> [k \in StrKeys |-> IF k \in DOMAIN fields THEN fields[k] ELSE None],
     exports |-> exports,
     imports |-> imports]

sW == <<"w">>
sP == <<"p">>
sQ == <<"q">>
sD == <<"d">>
sScope == <<"@", "u">>
sT == <<"t">>
bJs == <<"b", ".", "j", "s">>
xJs == <<"x", ".", "j", "s">>
indexJs == <<"index", ".", "j", "s">>
eMjs == <<"e", ".", "m", "j", "s">>
local(name) == <<".", "/">> \o name

pDir == <<sW, nodeModules, sP>>

\* The files of every filesystem drawn.
BaseFiles ==
    { path(<<sW, bJs>>),
      path(<<sW, <<"t", ".", "d", ".", "t", "s">> >>),
      path(<<sW, <<"u", ".", "j", "s">> >>),
      path(<<sW, <<"u", ".", "d", ".", "t", "s">> >>),
      path(<<sW, <<"m", ".", "m", "j", "s">> >>),
      path(<<sW, <<"m", ".", "d", ".", "t", "s">> >>),
      path(<<sW, sD, indexJs>>),
      path(pDir \o <<eMjs>>),
      path(pDir \o <<indexJs>>),
      path(pDir \o <<<<"b">>, xJs>>),
      path(pDir \o <<sQ, packageJson>>),
      path(pDir \o <<sQ, <<"z", ".", "j", "s">> >>),
      path(<<sW, nodeModules, sScope, sT, packageJson>>),
      path(<<sW, nodeModules, sScope, sT, <<"test", ".", "j", "s">> >>) }

\* A second package p/q, in the node_modules of the directory d.
NestedFiles == { path(<<sW, sD, nodeModules, sP, sQ, packageJson>>) }

\* The nested packages p/q and the scoped package @u/t.
BaseJson ==
    (path(<<sW, sD, nodeModules, sP, sQ, packageJson>>)
        :> Manifest(<<>>, Undefined, Undefined))
    @@
    (path(pDir \o <<sQ, packageJson>>)
        :> Manifest(("module" :> local(<<"z", ".", "j", "s">>)), Undefined, Undefined))
    @@ (path(<<sW, nodeModules, sScope, sT, packageJson>>)
        :> Manifest(("name" :> <<"@", "u", "/", "t">>) @@ ("main" :> local(<<"test", ".", "j", "s">>)),
                    Undefined, Undefined))

\* What the manifest of the dependency p may hold.
PManifests ==
    { \* legacy fields only
      Manifest(("name" :> sP) @@ ("module" :> local(eMjs)) @@ ("main" :> local(indexJs)),
               Undefined, Undefined),
      \* conditional and pattern exports
      Manifest(("name" :> sP) @@ ("main" :> local(indexJs)),
               Obj(<< << <<".">>,
                         Obj(<< <<kNode, Str(local(indexJs) \o <<"#", "n">>)>>,
                                <<kBrowser, Str(local(indexJs) \o <<"#", "w">>)>> >>) >>,
                      << <<".", "/", "f", "/", "*">>, Str(<<".", "/", "b", "/", "*">>) >> >>),
               Undefined),
      \* exports that match neither the root nor any subpath asked for
      Manifest(("name" :> sP) @@ ("module" :> local(eMjs)),
               Obj(<< << <<".", "/", "o">>, Str(local(<<"b", "/">> \o xJs)) >> >>),
               Undefined),
      \* exports whose target is not local
      Manifest(("name" :> sP) @@ ("main" :> local(indexJs)) @@ ("type" :> <<"module">>),
               Str(<<"@", "u", "/", "t">>),
               Undefined),
      \* main alone, in a package that is not of type module
      Manifest(("name" :> sP) @@ ("main" :> local(indexJs)) @@ ("module" :> NonString),
               Undefined, Undefined),
      \* an entry that is written as a URL of another scheme
      Manifest(("name" :> sP) @@ ("module" :> <<"h", "t", "t", "p", ":", "/", "/", "e", "/">> \o xJs),
               Undefined, Undefined) }

\* What the manifest of the importer's own package may hold.
SelfManifests ==
    { Manifest(("name" :> <<"s">>),
               Obj(<< << <<".">>, Str(local(bJs)) >>,
                      << local(<<"u">>), Str(local(bJs)) >> >>),
               Obj(<< << <<"#", "i">>, Str(local(bJs) \o <<"#", "i">>) >>,
                      << <<"#", "o">>, Str(sP) >>,
                      << <<"#", "a", "/", "*">>, Str(<<"p", "/", "*">>) >> >>)),
      Manifest(("name" :> sP) @@ ("module" :> local(bJs)), Undefined, Undefined),
      \* a package named as a module built into Node is
      Manifest(("name" :> <<"fs">>) @@ ("module" :> local(bJs)), Undefined, Undefined) }

\* A manifest file: absent, present but not JSON, or parsed.
Absent == [kind |-> "absent", info |-> Manifest(<<>>, Undefined, Undefined)]
Broken == [kind |-> "broken", info |-> Manifest(<<>>, Undefined, Undefined)]
Parsed(info) == [kind |-> "json", info |-> info]

ManifestFile(at, content) ==
    [files |-> IF content.kind = "absent" THEN {} ELSE {at},
     json |-> IF content.kind = "json" THEN (at :> content.info) ELSE <<>>]

selfManifestPath == path(<<sW, packageJson>>)
pManifestPath == path(pDir \o <<packageJson>>)

World(selfContent, pContent, extraFiles) ==
    LET self == ManifestFile(selfManifestPath, selfContent)
        dep == ManifestFile(pManifestPath, pContent)
        files == BaseFiles \cup self.files \cup dep.files \cup extraFiles
    IN  [files |-> files,
         dirs |-> directoriesOf(files),
         json |-> self.json @@ dep.json @@ BaseJson]

\* Files that may or may not be there.
OptionalFiles == { path(<<sW, indexJs>>) }

SelfContents == {Absent, Broken} \cup {Parsed(m) : m \in SelfManifests}
PContents == {Absent, Broken} \cup {Parsed(m) : m \in PManifests}

\* The manifest with imports, for the worlds where the dependency varies.
WithImports == CHOOSE m \in SelfManifests : m.imports # Undefined

\* The manifest of p without exports, for the worlds where the importer's
\* own package varies.
LegacyOnly == CHOOSE m \in PManifests : m.exports = Undefined /\ m.str["module"] = local(eMjs)

Worlds ==
    {World(selfContent, Parsed(LegacyOnly), {}) : selfContent \in SelfContents}
    \cup {World(Parsed(WithImports), pContent, {}) : pContent \in PContents}
    \cup {World(Absent, Absent, OptionalFiles)}
    \cup {World(Parsed(WithImports), Parsed(LegacyOnly), NestedFiles)}

\* Most options a caller sets away from their defaults.
MaxOverrides == 2

Overrides ==
    { <<"constraints", << <<"node">> >> >>,
      <<"allowMissing", TRUE>>,
      <<"rewritePeerTypes", FALSE>>,
      <<"allowExportFallback", FALSE>>,
      <<"matchNakedMjs", TRUE>>,
      <<"includeMainFallback", FALSE>>,
      <<"checkNestedPackages", FALSE>> }

\* The options objects a caller passes: a value for some of the keys.
OptionInputs ==
    { [k \in {o[1] : o \in chosen} |-> (CHOOSE o \in chosen : o[1] = k)[2]] :
        chosen \in {c \in SUBSET Overrides : Cardinality(c) <= MaxOverrides} }

ImporterInputs == { <<".", "/", "f", ".", "j", "s">>, <<".", "/", "d", "/", "f", ".", "j", "s">> }

ImporteeInputs ==
    { sP,
      <<"p", "/">> \o indexJs,
      <<"p", "/", "n", "o", ".", "j", "s">>,
      <<"p", "/", "f", "/">> \o xJs,
      <<"p", "/", "b", "/", "x">>,
      <<"p", "/", "q">>,
      <<"p", "/", "q", "/", "z", ".", "j", "s">>,
      <<"@", "u", "/", "t">>,
      <<"@", "u">>,
      <<"s">>,
      <<"fs">>,
      local(bJs),
      local(bJs) \o <<"?", "v", "#", "h">>,
      <<".", ".", "/">> \o bJs,
      local(<<"t", ".", "j", "s">>),
      local(<<"t">>) \o <<"?", "v">>,
      local(<<"u">>),
      local(<<"m">>),
      local(<<"d">>),
      local(<<"n", "o">>),
      <<".">>,
      <<"#", "i">>,
      <<"#", "o">>,
      <<"#", "a", "/">> \o indexJs,
      <<"#", "z">>,
      <<"/", "w", "/">> \o bJs,
      <<"a", ":", "b">>,
      FileScheme \o <<"/", "/", "/", "w", "/">> \o bJs }

(***************************************************************************)
(* State                                                                   *)
(***************************************************************************)
NoFiles == [files |-> {}, dirs |-> {<<"/">>}, json |-> <<>>]

NoResolver == [built |-> FALSE]

\* The call of matchModuleNode that is pending in last, with what
\* matchModuleNodePath returned in it.
MatchCall ==
    /\ last.op = "callMatch"
    /\ last' = [op |-> "match",
                exports |-> last.exports,
                rest |-> last.rest,
                constraints |-> last.constraints,
                found |-> matchModuleNodePath(last.exports, last.rest),
                result |-> matchModuleNode(last.exports, last.rest, last.constraints)]
    /\ UNCHANGED <<fs, options, importer, handler, resolver, first>>

InitMatch ==
    /\ fs = NoFiles
    /\ options = <<>>
    /\ importer = <<>>
    /\ handler = "lazy"
    /\ resolver = NoResolver
    /\ first = <<>>
    /\ \E exports \in ExportsInputs, rest \in RestInputs, constraints \in ConstraintInputs :
          last = [op |-> "callMatch", exports |-> exports, rest |-> rest,
                  constraints |-> constraints]

NextMatch == MatchCall

\* The matcher applied to every input.
SpecMatch == InitMatch /\ [][NextMatch]_vars

\* The handler never swapped: a Resolver is built on every call.
handlerCallUnbound(h, r, importerPath, callerOptions, f, importee) ==
    [handler |-> "lazy",
     resolver |-> construct(importerPath, callerOptions),
     steps |-> resolveSteps(construct(importerPath, callerOptions), f, importee)]

\* The bound resolve with the specifiers that failed once remembered as
\* failures.
boundCallFailuresKept(bound, f, importee) ==
    [handler |-> "bound", resolver |-> bound,
     steps |-> IF importee \in DOMAIN first /\ first[importee] = None
               THEN [resolveSteps(bound, f, importee) EXCEPT !.result = None]
               ELSE resolveSteps(bound, f, importee)]

\* The bound resolve called with importee.
boundCall(bound, f, importee) ==
    [handler |-> "bound", resolver |-> bound, steps |-> resolveSteps(bound, f, importee)]

\* The function buildResolver returns, called with importee: the handler
\* builds the Resolver on its first call and is swapped for the bound
\* resolve; the Resolver in use after the call, and every step of resolve.
handlerCall(h, r, importerPath, callerOptions, f, importee) ==
    boundCall(IF h = "lazy" THEN construct(importerPath, callerOptions) ELSE r, f, importee)

\* The call with importee has returned: the handler is bound, the outcome
\* recorded, and the value of the first call with importee remembered.
returned(call, importee) ==
    /\ handler' = call.handler
    /\ resolver' = call.resolver
    /\ last' = [op |-> "resolve", importee |-> importee,
                again |-> importee \in DOMAIN first, steps |-> call.steps]
    /\ first' = IF importee \in DOMAIN first THEN first
                ELSE first @@ (importee :> call.steps.result)

\* The pending call of the resolver function.
ResolveCall ==
    /\ last.op = "callResolve"
    /\ returned(handlerCall(handler, resolver, importer, options, fs, last.importee),
                last.importee)
    /\ UNCHANGED <<fs, options, importer>>

InitResolve ==
    /\ fs \in Worlds
    /\ options \in OptionInputs
    /\ importer \in ImporterInputs
    /\ handler = "lazy"
    /\ resolver = NoResolver
    /\ first = <<>>
    /\ \E importee \in ImporteeInputs : last = [op |-> "callResolve", importee |-> importee]

NextResolve == ResolveCall

\* One resolver built for every importer, options and filesystem, and called
\* once with every specifier.
SpecResolve == InitResolve /\ [][NextResolve]_vars

\* The paths confirmPath is asked about, and the files around them.
uPath == path(<<sW, <<"u">> >>)
ConfirmPaths == { uPath, uPath \o dotJs }

ConfirmFiles ==
    { uPath, uPath \o dotJs, uPath \o dotMjs, uPath \o dotDts,
      pathJoin(<<uPath, <<"index">> \o dotJs>>),
      pathJoin(<<uPath, <<"index">> \o dotMjs>>),
      pathJoin(<<uPath, <<"index">> \o dotDts>>) }

\* No path is both a regular file and a directory.
ConfirmWorlds ==
    { [files |-> files, dirs |-> directoriesOf(files), json |-> <<>>] :
        files \in {fl \in SUBSET ConfirmFiles : fl \cap directoriesOf(fl) = {}} }

ConfirmOptions ==
    { [k \in {o[1] : o \in chosen} |-> (CHOOSE o \in chosen : o[1] = k)[2]] :
        chosen \in SUBSET { <<"matchNakedMjs", TRUE>>, <<"rewritePeerTypes", FALSE>> } }

\* The pending call of confirmPath on a Resolver built with the options.
ConfirmCall ==
    /\ last.op = "callConfirm"
    /\ last' = [op |-> "confirm",
                pathname |-> last.pathname,
                result |-> confirmPath(construct(importer, options).options, fs, last.pathname)]
    /\ UNCHANGED <<fs, options, importer, handler, resolver, first>>

InitConfirm ==
    /\ fs \in ConfirmWorlds
    /\ options \in ConfirmOptions
    /\ importer = <<".", "/", "f", ".", "j", "s">>
    /\ handler = "lazy"
    /\ resolver = NoResolver
    /\ first = <<>>
    /\ \E pathname \in ConfirmPaths : last = [op |-> "callConfirm", pathname |-> pathname]

NextConfirm == ConfirmCall

\* confirmPath applied to every path, options and set of files around it.
SpecConfirm == InitConfirm /\ [][NextConfirm]_vars

\* The specifiers, filesystems and options of the resolver that is reused.
ReusedImportees == { sP, <<"p", "/", "b", "/", "x">>, local(<<"m">>) }

ReusedWorlds ==
    { World(Absent, pContent, {}) :
        pContent \in {Absent} \cup {Parsed(m) : m \in {n \in PManifests : n.exports.t \in {"undef", "obj"}
                                                                        /\ n.str["module"] # NonString}} }

ReusedOptions ==
    { <<>>, ("matchNakedMjs" :> TRUE), ("allowExportFallback" :> FALSE), ("allowMissing" :> TRUE) }

\* The function buildResolver returned is called.
Call(importee) ==
    /\ returned(handlerCall(handler, resolver, importer, options, fs, importee), importee)
    /\ UNCHANGED <<fs, options, importer>>

\* The caller changes the options object it passed to buildResolver.
MutateOptions(callerOptions) ==
    /\ options' = callerOptions
    /\ options' # options
    /\ UNCHANGED <<fs, importer, handler, resolver, first, last>>

\* The files or manifests change on disk: the calls made before say nothing
\* about the calls made after.
ChangeFiles(f) ==
    /\ fs' = f
    /\ fs' # fs
    /\ first' = <<>>
    /\ last' = [op |-> "changed", importee |-> None]
    /\ UNCHANGED <<options, importer, handler, resolver>>

InitCalls ==
    /\ fs \in ReusedWorlds
    /\ options \in ReusedOptions
    /\ importer = <<".", "/", "f", ".", "j", "s">>
    /\ handler = "lazy"
    /\ resolver = NoResolver
    /\ first = <<>>
    /\ last = [op |-> "built", importee |-> None]

NextCalls ==
    \/ \E importee \in ReusedImportees : Call(importee)
    \/ \E callerOptions \in ReusedOptions : MutateOptions(callerOptions)
    \/ \E f \in ReusedWorlds : ChangeFiles(f)

\* One function returned by buildResolver, called again and again while its
\* caller's options object and the filesystem change.
SpecCalls == InitCalls /\ [][NextCalls]_vars

\* What a field of a manifest may hold.
FieldValues(key) == { None, NonString, local(<<key, ".", "j", "s">>) }

\* Manifests for the legacy entry: every legacy field and 'main' absent, not
\* a string, or a path; 'type' absent or 'module'.
LegacyManifests ==
    { Manifest([k \in DOMAIN fields \cup {"name", "type"} |->
                   IF k = "name" THEN sP ELSE IF k = "type" THEN type ELSE fields[k]],
               Undefined, Undefined) :
        fields \in [{"module", "esnext:main", "esnext", "jsnext:main", "jsnext", "main"}
                       -> UNION {FieldValues(k) : k \in {"a", "b"}}],
        type \in {None, <<"module">>} }

LegacyOptions == { <<>>, ("includeMainFallback" :> FALSE) }

\* The pending choice of the entry of a package imported by its name alone,
\* on a Resolver built with the options.
LegacyCall ==
    /\ last.op = "callLegacy"
    /\ last' = [op |-> "legacy",
                info |-> last.info,
                entry |-> legacyEntry(construct(importer, options), last.info)]
    /\ UNCHANGED <<fs, options, importer, handler, resolver, first>>

InitLegacy ==
    /\ fs = NoFiles
    /\ options \in LegacyOptions
    /\ importer = <<".", "/", "f", ".", "j", "s">>
    /\ handler = "lazy"
    /\ resolver = NoResolver
    /\ first = <<>>
    /\ \E info \in LegacyManifests : last = [op |-> "callLegacy", info |-> info]

NextLegacy == LegacyCall

\* The legacy entry chosen for every manifest and setting of
\* includeMainFallback.
SpecLegacy == InitLegacy /\ [][NextLegacy]_vars

\* The specifiers asked again after the files changed, and the file each
\* needs: a script beside the importer, or the manifest of the package p.
nJs == <<"n", ".", "j", "s">>

RetryImportees == { sP, <<"p", "/", "b", "/", "x">>, local(<<"n">>) }

RetryWorlds ==
    { World(Absent, pContent, extraFiles) :
        pContent \in {Absent, Parsed(LegacyOnly)},
        extraFiles \in SUBSET {path(<<sW, nJs>>)} }

RetryOptions == { <<>>, ("matchNakedMjs" :> TRUE) }

\* Files and packages appear or vanish between two calls; the value of the
\* first call with each specifier stays remembered.
FilesChange(f) ==
    /\ fs' = f
    /\ fs' # fs
    /\ last' = [op |-> "changed", importee |-> None]
    /\ UNCHANGED <<options, importer, handler, resolver, first>>

InitRetry ==
    /\ fs \in RetryWorlds
    /\ options \in RetryOptions
    /\ importer = <<".", "/", "f", ".", "j", "s">>
    /\ handler = "lazy"
    /\ resolver = NoResolver
    /\ first = <<>>
    /\ last = [op |-> "built", importee |-> None]

NextRetry ==
    \/ \E importee \in RetryImportees : Call(importee)
    \/ \E f \in RetryWorlds : FilesChange(f)

\* One resolver function called again and again while files and packages
\* appear and vanish.
SpecRetry == InitRetry /\ [][NextRetry]_vars

(***************************************************************************)
(* Claims about the matcher (checked under SpecMatch)                      *)
(***************************************************************************)
\* key is a pattern key whose prefix the request extends.
isPatternFor(key, rest) ==
    /\ endsWith(key, <<"/", "*">>)
    /\ startsWith(key, <<"#">>) \/ isLocal(key)
    /\ startsWith(rest, SubSeq(key, 1, Len(key) - 1))
    /\ Len(rest) > Len(key) - 1

\* The captured remainder: the request minus the key's prefix.
captureOf(key, rest) == substr(rest, Len(key) - 1)

removeAt(kv, i) == SubSeq(kv, 1, i - 1) \o SubSeq(kv, i + 1, Len(kv))

\* s with every '*' replaced by r, r taken literally.
RECURSIVE replaceVerbatim(_, _)
replaceVerbatim(s, r) ==
    IF Len(s) = 0 THEN <<>>
    ELSE (IF s[1] = "*" THEN r ELSE <<s[1]>>) \o replaceVerbatim(Tail(s), r)

\* C5: when a mapping holds a key equal to the request and a pattern key that
\* matches the request too, matchModuleNodePath returns the exact key's node,
\* whichever of the two is declared first.
C5_ExactOutranksPattern ==
    (last.op = "match" /\ last.exports.t = "obj") =>
        \A i, j \in 1..Len(last.exports.kv) :
            ( /\ last.exports.kv[i][1] = last.rest
              /\ isPatternFor(last.exports.kv[j][1], last.rest)
              /\ pathNormalize(captureOf(last.exports.kv[j][1], last.rest))
                    = captureOf(last.exports.kv[j][1], last.rest) )
            => last.found = [node |-> last.exports.kv[i][2], subpath |-> None]

\* C6: a request matched through a pattern key returns the selected terminal
\* string with every '*' replaced by the captured remainder, inserted verbatim.
C6_WildcardVerbatim ==
    (last.op = "match" /\ last.found.subpath # None
        /\ truthy(restart(last.found.node, last.constraints))) =>
        last.result = replaceVerbatim(restart(last.found.node, last.constraints).s,
                                      last.found.subpath)

\* C7: a pattern key is never the match of a request whose captured remainder
\* differs from its path-normalized form: the key is skipped, and the scan goes
\* on over the other keys as if the key were not declared (the node returned is
\* the one returned without the key, or the whole mapping where that is the
\* whole mapping without the key).
C7_UnnormalizedCaptureSkipped ==
    (last.op = "match" /\ last.exports.t = "obj") =>
        /\ last.found.subpath # None =>
              pathNormalize(last.found.subpath) = last.found.subpath
        /\ \A i \in 1..Len(last.exports.kv) :
              ( /\ isPatternFor(last.exports.kv[i][1], last.rest)
                /\ pathNormalize(captureOf(last.exports.kv[i][1], last.rest))
                      # captureOf(last.exports.kv[i][1], last.rest) )
              => LET without == Obj(removeAt(last.exports.kv, i))
                     other == matchModuleNodePath(without, last.rest)
                 IN  /\ last.found.subpath = other.subpath
                     /\ \/ last.found.node = other.node
                        \/ last.found.node = last.exports /\ other.node = without

\* C7 witness: a pattern key skipped for its capture, and the pattern key
\* declared after it taken with its own capture.
C7_Witness ==
    /\ last.op = "match"
    /\ last.exports.t = "obj"
    /\ \E i, j \in 1..Len(last.exports.kv) :
          /\ i < j
          /\ isPatternFor(last.exports.kv[i][1], last.rest)
          /\ pathNormalize(captureOf(last.exports.kv[i][1], last.rest))
                # captureOf(last.exports.kv[i][1], last.rest)
          /\ last.found = [node |-> last.exports.kv[j][2],
                           subpath |-> captureOf(last.exports.kv[j][1], last.rest)]

\* The first key of a mapping, in declaration order, that is 'import',
\* 'module' or one of the constraints; 0 when there is none.
firstSatisfied(node, constraints) ==
    LET hits == {i \in 1..Len(node.kv) :
                    \/ node.kv[i][1] \in {kImport, kModule}
                    \/ includes(constraints, node.kv[i][1])}
    IN  IF hits = {} THEN 0 ELSE CHOOSE i \in hits : \A j \in hits : i <= j

\* What matchModuleNode returns once the traversal stands at node.
outcomeAt(node, subpath, constraints) ==
    LET n == restart(node, constraints)
    IN  IF ~truthy(n) THEN None
        ELSE IF subpath # None THEN replaceAllStars(n.s, subpath)
        ELSE n.s

\* C8: 'import' and 'module' are satisfied under every constraints list: a
\* mapping whose first satisfied key is one of them is descended through it.
C8_AlwaysOnConditions ==
    (last.op = "match" /\ last.found.node.t = "obj") =>
        LET i == firstSatisfied(last.found.node, last.constraints)
        IN  (i # 0 /\ last.found.node.kv[i][1] \in {kImport, kModule}) =>
                last.result = outcomeAt(last.found.node.kv[i][2], last.found.subpath,
                                        last.constraints)

\* C8 witness: an empty constraints list, a mapping whose first key is
\* 'module', and the string under it returned.
C8_Witness ==
    /\ last.op = "match"
    /\ last.constraints = <<>>
    /\ last.found.node.t = "obj"
    /\ last.found.node.kv[1][1] = kModule
    /\ last.found.node.kv[1][2].t = "str"
    /\ last.result = last.found.node.kv[1][2].s

(***************************************************************************)
(* Claims about resolve (checked under SpecResolve)                        *)
(***************************************************************************)
\* A value resolve returns that is a path: not undefined, not the inert
\* placeholder, and no exception.
isPathResult(result) == result \notin {None, Throws, zeroJsDefinitionsImport}

\* A result without its query and hash.
withoutSuffix(result) == urlSplit(result).path

\* C1: a specifier that parses as an absolute URL resolves to undefined,
\* whatever the options and the files.
C1_URLUnresolved ==
    (last.op = "resolve" /\ isURL(last.importee)) => last.steps.result = None

\* A file: URL of a file that exists was asked for, and missing files allowed.
C1_Witness ==
    /\ last.op = "resolve"
    /\ isURL(last.importee)
    /\ startsWith(last.importee, FileScheme)
    /\ statIsFile(fs, substr(last.importee, Len(FileScheme) + 2))
    /\ resolver.options["allowMissing"]
    /\ last.steps.result = None

\* C3: with allowMissing false, a result that is a path denotes, without its
\* suffix and from the importer's directory, a regular file; and a path that
\* is not confirmed gives undefined.
C3_ResultIsFile ==
    (last.op = "resolve" /\ ~resolver.options["allowMissing"]) =>
        /\ isPathResult(last.steps.result) =>
              statOrNull(fs, pathJoin(<<resolver.importerDir.pathname,
                                        withoutSuffix(last.steps.result)>>)) = "file"
        /\ (last.steps.pathname # None /\ last.steps.confirmed = None) =>
              last.steps.result = None

\* A file found by its suffix and returned with the query and hash asked for.
C3_Witness ==
    /\ last.op = "resolve"
    /\ ~resolver.options["allowMissing"]
    /\ isPathResult(last.steps.result)
    /\ last.steps.confirmed # last.steps.pathname
    /\ Len(last.steps.suffix) > 0

\* C4: a result that is a path begins with './', '../' or '/'.
C4_RelativeMarker ==
    (last.op = "resolve" /\ isPathResult(last.steps.result)) =>
        relativeRegexp(last.steps.result)

\* path.relative gave a path without a marker, and './' was put before it.
C4_Witness ==
    /\ last.op = "resolve"
    /\ isPathResult(last.steps.result)
    /\ ~relativeRegexp(pathRelative(resolver.importerDir.pathname, last.steps.confirmed))
    /\ startsWith(last.steps.result, <<".", "/">>)


\* The package the first turn of the loop of nodeResolve loads for a bare
\* specifier, and the subpath asked of it.
firstIndex(pathComponents) == IF startsWith(pathComponents[1], <<"@">>) THEN 2 ELSE 1

firstName(importee) ==
    join(slice(split(importee, "/"), 0, firstIndex(split(importee, "/"))), "/")

firstRest(importee) ==
    join(<< <<".">> >> \o slice(split(importee, "/"), firstIndex(split(importee, "/")),
                                Len(split(importee, "/"))), "/")

\* The matcher gave no local target.
noLocalTarget(matched) == matched = None \/ Len(matched) = 0 \/ ~isLocal(matched)

\* The package located for the last specifier declares exports, and they give
\* no local target for the subpath.
exportsUnmatched ==
    /\ last.op = "resolve"
    /\ ~isURL(last.importee)
    /\ ~startsWith(last.importee, <<"#">>)
    /\ LET pkg == loadPackage(resolver, fs, firstName(last.importee))
       IN  /\ pkg.found
           /\ truthy(pkg.info.exports)
           /\ noLocalTarget(matchModuleNode(pkg.info.exports, firstRest(last.importee),
                                            resolver.constraints))

\* The files with the exports taken out of the manifest at manifestPath.
withoutExports(f, manifestPath) ==
    [f EXCEPT !.json = [q \in DOMAIN f.json |->
                           IF q = manifestPath
                           THEN [f.json[q] EXCEPT !.exports = Undefined]
                           ELSE f.json[q]]]

indexFile(pathname, ext) == pathJoin(<<pathname, <<"index">> \o ext>>)

\* The sibling of a path that is no directory, the index file of a directory.
scriptFor(f, pathname, ext) ==
    IF statOrNull(f, pathname) = "dir" THEN indexFile(pathname, ext) ELSE pathname \o ext

\* C10 as stated: the placeholder is returned only when the path is no file
\* and no .js or .mjs sibling exists or, for a directory, no index.js or
\* index.mjs, for every setting of matchNakedMjs.
C10_NoSiblingScript ==
    (last.op = "confirm" /\ last.result = zeroJsDefinitionsImport) =>
        /\ ~statIsFile(fs, last.pathname)
        /\ ~statIsFile(fs, scriptFor(fs, last.pathname, dotJs))
        /\ ~statIsFile(fs, scriptFor(fs, last.pathname, dotMjs))

\* C10, amended: the placeholder is returned only when the path is no file
\* and no sibling (for a directory, no index file) with a probed extension
\* exists: .js always, .mjs only when matchNakedMjs is true.
C10_NoProbedSibling ==
    (last.op = "confirm" /\ last.result = zeroJsDefinitionsImport) =>
        /\ ~statIsFile(fs, last.pathname)
        /\ ~statIsFile(fs, scriptFor(fs, last.pathname, dotJs))
        /\ ("matchNakedMjs" \in DOMAIN options) =>
              ~statIsFile(fs, scriptFor(fs, last.pathname, dotMjs))

\* The placeholder returned with matchNakedMjs true: neither the .js nor the
\* .mjs sibling was there.
C10_Witness ==
    /\ last.op = "confirm"
    /\ last.result = zeroJsDefinitionsImport
    /\ "matchNakedMjs" \in DOMAIN options
    /\ statIsFile(fs, last.pathname \o dotDts)

(***************************************************************************)
(* Claims about buildResolver (checked under SpecCalls)                    *)
(***************************************************************************)
\* C2: while the files and manifests are unchanged, a call returns what the
\* first call with the same specifier returned, the first call being the one
\* that builds the Resolver or not.
C2_Idempotent ==
    last.op = "resolve" => last.steps.result = first[last.importee]

\* A specifier resolved a second time after its caller changed the options
\* object, to a value a Resolver built now would not give.
C2_Witness ==
    /\ last.op = "resolve"
    /\ last.again
    /\ last.steps.result # None
    /\ resolve(construct(importer, options), fs, last.importee) # last.steps.result

(***************************************************************************)
(* Further claims about resolve (checked under SpecResolve)                *)
(***************************************************************************)
\* C11: a manifest that does not parse never makes resolve raise: neither
\* loadSelfPackage nor loadPackage lets the exception out of nodeResolve.
C11_BrokenManifestNeverRaises ==
    last.op = "resolve" => last.steps.resolved # Throws

\* The last specifier starts with '#' and the importer has no self package,
\* or the imports of its self package give nothing for the specifier.
internalUnmatched ==
    /\ last.op = "resolve"
    /\ startsWith(last.importee, <<"#">>)
    /\ LET self == loadSelfPackage(resolver, fs)
       IN  \/ ~self.found
           \/ matchModuleNode(importsOf(self.info), last.importee,
                              resolver.constraints) \in {None, <<>>}

\* C12: a specifier that starts with '#' and that no self package's imports
\* match resolves to undefined, whatever files lie in the importer's
\* directory.
C12_InternalNoFallThrough ==
    internalUnmatched => last.steps.result = None

\* C14: when confirmPath gives the inert placeholder for a specifier with a
\* query or hash, resolve returns the placeholder followed by that suffix.
C14_PlaceholderKeepsSuffix ==
    (/\ last.op = "resolve"
     /\ last.steps.confirmed = zeroJsDefinitionsImport
     /\ Len(last.steps.suffix) > 0) =>
        last.steps.result = zeroJsDefinitionsImport \o last.steps.suffix

\* A bare package specifier: a package name, with a subpath or not.
isBare(t) ==
    /\ Len(t) > 0
    /\ ~isURL(t)
    /\ t[1] \notin {"#", ".", "/"}

\* What the imports of the self package give for the last specifier, None
\* where the specifier is not internal or there is no self package.
internalTarget ==
    IF last.op = "resolve" /\ startsWith(last.importee, <<"#">>)
                           /\ loadSelfPackage(resolver, fs).found
    THEN matchModuleNode(importsOf(loadSelfPackage(resolver, fs).info), last.importee,
                         resolver.constraints)
    ELSE None

\* C15: where the imports of the self package give a bare package specifier T
\* for '#x', resolve('#x') returns what resolve(T) returns on the same
\* resolver.
C15_InternalAliasSameAsTarget ==
    (internalTarget # None /\ isBare(internalTarget)) =>
        last.steps.result = resolve(resolver, fs, internalTarget)

\* The last specifier is bare and the self package declares the name that
\* the first turn of nodeResolve asks loadPackage for.
selfNamed ==
    /\ last.op = "resolve"
    /\ isBare(last.importee)
    /\ loadSelfPackage(resolver, fs).found
    /\ loadSelfPackage(resolver, fs).info.str["name"] = firstName(last.importee)

\* C13 as stated: loadPackage returns the self package whenever the name asked
\* for is the name the self manifest declares.
C13_SelfPackageAlways ==
    selfNamed => loadPackage(resolver, fs, firstName(last.importee))
                    = loadSelfPackage(resolver, fs)

\* C13, amended: loadPackage returns the self package whenever the name asked
\* for is the name the self manifest declares and require.resolve.paths gives
\* a search chain for the name (none is given for a module built into Node),
\* a dependency directory holding a package of that name or not.
C13_SelfPackageFirst ==
    (selfNamed /\ Len(resolvePaths(resolver, firstName(last.importee))) > 0) =>
        loadPackage(resolver, fs, firstName(last.importee)) = loadSelfPackage(resolver, fs)

\* The self package is named as a package that also lies in node_modules, and
\* the specifier resolved into the self package's directory.
C13_Witness ==
    /\ selfNamed
    /\ \E i \in 1..Len(resolver.requirePaths) :
          existsSync(fs, pathJoin(<<resolver.requirePaths[i], firstName(last.importee),
                                    packageJson>>))
    /\ last.steps.resolved =
           fileURL(pathJoin(<<loadSelfPackage(resolver, fs).resolved,
                              legacyEntry(resolver, loadSelfPackage(resolver, fs).info)>>))

(***************************************************************************)
(* Claims about the legacy entry (checked under SpecLegacy)                *)
(***************************************************************************)
LegacyOrder == <<"module", "esnext:main", "esnext", "jsnext:main", "jsnext">>

\* The places in LegacyOrder of the fields of the last manifest that hold a
\* string.
stringFields ==
    {i \in 1..Len(LegacyOrder) : last.info.str[LegacyOrder[i]] \notin {None, NonString}}

\* 'main' may be used for the last manifest.
mainAllowed ==
    /\ "includeMainFallback" \notin DOMAIN options \/ last.info.str["type"] = <<"module">>
    /\ last.info.str["main"] \notin {None, NonString}

\* C16: the legacy entry of a package root is the first field, in the order
\* module, esnext:main, esnext, jsnext:main, jsnext, that holds a string;
\* 'main' only when none of the five does and includeMainFallback is true or
\* the type is 'module'; the package directory in every other case.
C16_LegacyEntryOrder ==
    last.op = "legacy" =>
        IF stringFields # {}
        THEN last.entry =
                 last.info.str[LegacyOrder[CHOOSE i \in stringFields :
                                               \A j \in stringFields : i <= j]]
        ELSE IF mainAllowed THEN last.entry = last.info.str["main"]
        ELSE last.entry = <<".">>

\* 'main' used for a package of type module with includeMainFallback false,
\* while 'module' is there but holds no string.
C16_Witness ==
    /\ last.op = "legacy"
    /\ "includeMainFallback" \in DOMAIN options
    /\ last.info.str["module"] = NonString
    /\ last.entry = last.info.str["main"]
    /\ last.entry # None

(***************************************************************************)
(* Claims about the nested-package loop (checked under SpecResolve)        *)
(***************************************************************************)
\* The turn of the loop of nodeResolve with index k, for the last specifier:
\* the name and the subpath, the package loaded, and what the turn does.
nameAt(k) == join(slice(split(last.importee, "/"), 0, k), "/")

restAt(k) ==
    join(<< <<".">> >> \o slice(split(last.importee, "/"), k,
                                Len(split(last.importee, "/"))), "/")

pkgAt(k) == loadPackage(resolver, fs, nameAt(k))

\* The exports of the package of turn k give a local target.
exportMatchAt(k) ==
    /\ pkgAt(k).found
    /\ truthy(pkgAt(k).info.exports)
    /\ ~noLocalTarget(matchModuleNode(pkgAt(k).info.exports, restAt(k), resolver.constraints))

\* Turn k constructs a fallback candidate: a package, a subpath under it, and
\* no exports in the way.
candidateAt(k) ==
    /\ pkgAt(k).found
    /\ restAt(k) # <<".">>
    /\ ~exportMatchAt(k)
    /\ truthy(pkgAt(k).info.exports) => resolver.options["allowExportFallback"]

candidateOf(k) == fileURL(pathJoin(<<pkgAt(k).resolved, restAt(k)>>))

\* Turn k ends the loop: an exception, or a package that is no candidate.
endsAt(k) == pkgAt(k).threw \/ (pkgAt(k).found /\ ~candidateAt(k))

\* The turns of the loop for the last specifier.
Turns == firstIndex(split(last.importee, "/"))..Len(split(last.importee, "/"))

\* Turn k is the first that constructs a candidate.
firstCandidateAt(k) ==
    /\ candidateAt(k)
    /\ \A j \in Turns : j < k => (~endsAt(j) /\ ~candidateAt(j))

\* The last call went through the nested-package loop.
nestedRetry ==
    /\ last.op = "resolve"
    /\ isBare(last.importee)
    /\ resolver.options["checkNestedPackages"]

\* C17 as stated: the result of nodeResolve is the first candidate constructed
\* whenever no later, longer prefix gives a match through exports.
C17_FirstCandidateUnlessExports ==
    nestedRetry =>
        \A k \in Turns :
            (firstCandidateAt(k) /\ \A j \in Turns : j > k => ~exportMatchAt(j)) =>
                last.steps.resolved = candidateOf(k)

\* C17, amended: the result of nodeResolve is the first candidate constructed
\* whenever no later, longer prefix ends the search: by a match through
\* exports, by the entry of a package the whole specifier names, by unmatched
\* exports with allowExportFallback false, or by a manifest that cannot be
\* read.
C17_FirstCandidateUnlessEnded ==
    nestedRetry =>
        \A k \in Turns :
            (firstCandidateAt(k) /\ \A j \in Turns : j > k => ~endsAt(j)) =>
                last.steps.resolved = candidateOf(k)

\* A later prefix constructed another candidate, and the first was returned.
C17_Witness ==
    /\ nestedRetry
    /\ \E k, j \in Turns :
          /\ firstCandidateAt(k)
          /\ j > k
          /\ candidateAt(j)
          /\ candidateOf(j) # candidateOf(k)
          /\ \A i \in Turns : i > k => ~endsAt(i)
          /\ last.steps.resolved = candidateOf(k)

(***************************************************************************)
(* Claims about relative specifiers (checked under SpecResolve)            *)
(***************************************************************************)
\* C18: for a specifier that begins with './' or '../', nodeResolve returns
\* undefined, and the path resolve confirms is the specifier taken from the
\* importer's directory: no manifest is applied to it.
C18_RelativeSkipsPackages ==
    (/\ last.op = "resolve"
     /\ \/ startsWith(last.importee, <<".", "/">>)
        \/ startsWith(last.importee, <<".", ".", "/">>)) =>
        /\ last.steps.resolved = None
        /\ last.steps.pathname =
               newURLWithBase(last.importee, resolver.importerDir).pathname

(***************************************************************************)
(* Further claims about the matcher (checked under SpecMatch)              *)
(***************************************************************************)
\* The places of the keys of a mapping that are 'import', 'module' or one of
\* the constraints.
satisfiedKeys(node, constraints) ==
    {i \in 1..Len(node.kv) :
        \/ node.kv[i][1] \in {kImport, kModule}
        \/ \E c \in 1..Len(constraints) : constraints[c] = node.kv[i][1]}

\* The places of the key 'default' in a mapping.
defaultKeys(node) == {i \in 1..Len(node.kv) : node.kv[i][1] = kDefault}

\* The child the selection descends into from a mapping: under the first
\* satisfied key, else under 'default', else nothing.
childOf(node, constraints) ==
    IF satisfiedKeys(node, constraints) # {}
    THEN node.kv[CHOOSE i \in satisfiedKeys(node, constraints) :
                     \A j \in satisfiedKeys(node, constraints) : i <= j][2]
    ELSE IF defaultKeys(node) # {}
    THEN node.kv[CHOOSE i \in defaultKeys(node) : TRUE][2]
    ELSE Undefined

\* The selection from a node: mappings descended until a string or nothing.
RECURSIVE selected(_, _)
selected(node, constraints) ==
    IF node.t = "obj" THEN selected(childOf(node, constraints), constraints)
    ELSE IF node.t = "str" /\ Len(node.s) > 0 THEN node.s
    ELSE None

\* C19: at each mapping the selection descends into the first key, in
\* declaration order, that is 'import', 'module' or one of the constraints,
\* and restarts there; into 'default' only when no key is satisfied, wherever
\* 'default' is declared; and gives nothing when no key is satisfied and
\* there is no 'default'.
C19_SelectCondition ==
    last.op = "match" =>
        last.result =
            IF selected(last.found.node, last.constraints) = None THEN None
            ELSE IF last.found.subpath # None
            THEN replaceAllStars(selected(last.found.node, last.constraints),
                                 last.found.subpath)
            ELSE selected(last.found.node, last.constraints)

\* 'default' declared before a satisfied key in a mapping under a satisfied
\* key: the satisfied keys are followed twice, and 'default' passed over.
C19_Witness ==
    /\ last.op = "match"
    /\ last.found.node.t = "obj"
    /\ satisfiedKeys(last.found.node, last.constraints) # {}
    /\ childOf(last.found.node, last.constraints).t = "obj"
    /\ defaultKeys(childOf(last.found.node, last.constraints)) # {}
    /\ \E i \in satisfiedKeys(childOf(last.found.node, last.constraints), last.constraints) :
          \A d \in defaultKeys(childOf(last.found.node, last.constraints)) : d < i
    /\ last.result # None

\* The segments of a path.
hasDotSegment(p) == \E i \in 1..Len(split(p, "/")) : split(p, "/")[i] \in {<<".">>, <<".", ".">>}

\* C20: no pattern key is matched with a captured remainder that holds a '..'
\* or a '.' segment.
C20_NoDotSegmentCaptured ==
    (last.op = "match" /\ last.found.subpath # None) => ~hasDotSegment(last.found.subpath)

(***************************************************************************)
(* Claims about a resolver whose files change (checked under SpecRetry)    *)
(***************************************************************************)
\* The file a specifier denotes: the script beside the importer, or the
\* manifest of the package it names.
denotedFile(importee) ==
    IF importee = local(<<"n">>) THEN path(<<sW, nJs>>) ELSE pManifestPath

\* The specifier of the last call failed on its first call, and what it
\* denotes exists now.
failedThenAppeared ==
    /\ last.op = "resolve"
    /\ last.again
    /\ first[last.importee] = None
    /\ denotedFile(last.importee) \in fs.files

\* C21: failures are not cached: when resolve(s) returned undefined on a
\* resolver and the file or package s denotes exists at a later resolve(s)
\* on the same resolver, that call returns the resolved path, the one a
\* resolver built now gives from the current manifests and files.
C21_FailuresNotCached ==
    failedThenAppeared =>
        /\ last.steps.result # None
        /\ last.steps.result = resolve(construct(importer, options), fs, last.importee)

\* A specifier that failed first and is resolved to a path now.
C21_Witness == failedThenAppeared /\ isPathResult(last.steps.result)

(***************************************************************************)
(* The scheme of what nodeResolve returns (checked under SpecResolve)      *)
(***************************************************************************)
\* nodeResolve returned a value.
nodeResolved == last.op = "resolve" /\ last.steps.resolved \notin {None, Throws}

\* C22: the scheme-mismatch error of resolve is unreachable: every value
\* nodeResolve returns, from a local internal import, an exports match, a
\* legacy entry, a literal subpath or the remembered fallback, is a file:
\* locator, whatever the manifests hold and whatever the specifier.
C22_AlwaysFileLocator ==
    nodeResolved =>
        /\ startsWith(last.steps.resolved, FileScheme \o <<"/", "/", "/">>)
        /\ newURL(last.steps.resolved).protocol = FileScheme
        /\ last.steps.result # Throws

\* A legacy entry written as an http: URL, returned by nodeResolve as a
\* file: locator.
C22_Witness ==
    /\ nodeResolved
    /\ last.importee = sP
    /\ fs.json[pManifestPath].str["module"] = <<"h", "t", "t", "p", ":", "/", "/", "e", "/">> \o xJs
    /\ last.steps.resolved = fileURL(path(pDir \o << <<"h", "t", "t", "p", ":">>, <<"e">>, xJs>>))

====
